---- MODULE Spec2Model ----
(***************************************************************************)
(* A model of streamlitapptania.py: the media-intelligence dashboard.      *)
(*                                                                         *)
(* The script is a linear pipeline that Streamlit re-executes from the top *)
(* on each interaction: file upload -> clean_data -> five chart steps,     *)
(* each an aggregation, a create_chart call and one get_gemini_insight     *)
(* call.  The two functions decorated with st.cache_data keep a memo       *)
(* across runs; everything else is rebuilt by each run.                    *)
(*                                                                         *)
(* Text is modelled as a sequence of one-character strings so that the     *)
(* string operations (lower, replace, strip) are computed and not assumed. *)
(* pandas and requests are modelled with the behaviour of the versions     *)
(* the script was written against (pandas 2.x, requests 2.x).              *)
(***************************************************************************)
EXTENDS Integers, Sequences, FiniteSets, TLC

VARIABLES
    pc,        \* position of the script run (or of the function under study)
    k,         \* number of the chart step the run is at (0: none)
    raw,       \* the uploaded table as pd.read_csv returns it, or NoFile
    data,      \* the module-level `data` DataFrame (line 182 / line 190)
    data2,     \* clean_data applied to `data` once more (idempotence study)
    errs,      \* st.error messages of the current run, in order
    warns,     \* st.warning messages of the current run, in order
    charts,    \* st.plotly_chart calls of the current run, in order
    shown,     \* insight texts written by st.markdown, in order
    cache,     \* st.cache_data memo of get_gemini_insight: prompt -> result
    net,       \* requests.post calls issued in the current run, in order
    reply,     \* what the endpoint did with the last request, or NoReply
    top        \* result of the top-locations aggregation (aggregation study)

vars == <<pc, k, raw, data, data2, errs, warns, charts, shown, cache, net, reply, top>>

----------------------------------------------------------------------------
(* Text helpers                                                            *)

UpperCase == <<"A","B","C","D","E","F","G","H","I","J","K","L","M",
               "N","O","P","Q","R","S","T","U","V","W","X","Y","Z">>
LowerCase == <<"a","b","c","d","e","f","g","h","i","j","k","l","m",
               "n","o","p","q","r","s","t","u","v","w","x","y","z">>

LowerOf ==
    [c \in {UpperCase[i] : i \in DOMAIN UpperCase} |->
        LowerCase[CHOOSE i \in DOMAIN UpperCase : UpperCase[i] = c]]

\* str.lower() on one character
LowerChar(c) == IF c \in DOMAIN LowerOf THEN LowerOf[c] ELSE c

\* str.replace(ch, '')
RemoveChar(s, ch) == SelectSeq(s, LAMBDA c : c # ch)

\* line 60: name.lower().replace(' ', '').replace('_', '')
normalize_column_name(name) ==
    RemoveChar(RemoveChar([i \in DOMAIN name |-> LowerChar(name[i])], " "), "_")

RECURSIVE LStrip(_)
LStrip(s) == IF s # <<>> /\ Head(s) = " " THEN LStrip(Tail(s)) ELSE s

RECURSIVE RStrip(_)
RStrip(s) ==
    IF s # <<>> /\ s[Len(s)] = " " THEN RStrip(SubSeq(s, 1, Len(s) - 1)) ELSE s

\* a strip that removes one blank per side only
StrStrip_OneBlank(s) ==
    LET l == IF s # <<>> /\ Head(s) = " " THEN Tail(s) ELSE s
    IN  IF l # <<>> /\ l[Len(l)] = " " THEN SubSeq(l, 1, Len(l) - 1) ELSE l

\* str.strip(): all leading and trailing blanks
StrStrip(s) == RStrip(LStrip(s))

----------------------------------------------------------------------------
(* Cells.  Every cell is a record [k, v]: k is the kind of value pandas    *)
(* holds, v its payload.                                                   *)
(*   date column:        "nan" | "iso" (text Y-M-D, v = <<y,m,d>>)         *)
(*                       | "junk" (text that is no date) | "ts" | "nat"    *)
(*   engagements column: "nan" | "numtext" (v in tenths) | "junk"          *)
(*                       | "inftext" | "float" (v in tenths) | "inf"       *)
(*                       | "int" (v in units)                              *)
(*   text columns:       "nan" | "str" (v = the characters)                *)

NaNDate == [k |-> "nan", v |-> <<>>]
NaT     == [k |-> "nat", v |-> <<>>]
NaNNum  == [k |-> "nan", v |-> 0]
NaNText == [k |-> "nan", v |-> <<>>]

Str(s) == [k |-> "str", v |-> s]

Unknown == <<"U","n","k","n","o","w","n">>
NanText == <<"n","a","n">>

DaysInMonth(y, m) ==
    IF m \in {4, 6, 9, 11} THEN 30
    ELSE IF m = 2
         THEN (IF (y % 4 = 0 /\ y % 100 # 0) \/ y % 400 = 0 THEN 29 ELSE 28)
         ELSE 31

ValidYMD(t) ==
    /\ Len(t) = 3
    /\ t[2] \in 1..12
    /\ t[3] >= 1 /\ t[3] <= DaysInMonth(t[1], t[2])

\* line 87, one element of pd.to_datetime(..., errors='coerce')
ToDatetime(c) ==
    CASE c.k = "ts"  -> c
      [] c.k = "iso" -> IF ValidYMD(c.v) THEN [k |-> "ts", v |-> c.v] ELSE NaT
      [] OTHER       -> NaT

\* line 92, one element of pd.to_numeric(..., errors='coerce')
ToNumeric(c) ==
    CASE c.k = "numtext" -> [k |-> "float", v |-> c.v]
      [] c.k = "inftext" -> [k |-> "inf", v |-> 0]
      [] c.k \in {"float", "int", "inf"} -> c
      [] OTHER -> NaNNum

\* line 92, .fillna(0)
FillNaZero(c) == IF c.k = "nan" THEN [k |-> "float", v |-> 0] ELSE c

\* float -> int64 conversion truncates toward zero
Trunc(tenths) == IF tenths >= 0 THEN tenths \div 10 ELSE -((-tenths) \div 10)

\* line 92, one element of .astype(int); inf is rejected at series level
AsTypeInt(c) == IF c.k = "float" THEN [k |-> "int", v |-> Trunc(c.v)] ELSE c

\* line 97, .astype(str): NaN becomes the text 'nan'
AsTypeStr(c) == IF c.k = "nan" THEN Str(NanText) ELSE c

\* line 97, .fillna('Unknown')
FillNaUnknown(c) == IF c.k = "nan" THEN Str(Unknown) ELSE c

\* line 97, .str.strip()
StripCell(c) == IF c.k = "str" THEN Str(StrStrip(c.v)) ELSE c

\* line 97, the whole chain for one element
CleanText(c) == StripCell(FillNaUnknown(AsTypeStr(c)))

----------------------------------------------------------------------------
(* DataFrames.  A frame is [columns, rows]: columns maps each of the six   *)
(* column slots to the header text it carries (<<>>: no such column), rows *)
(* is the sequence of rows, each carrying its index label idx.             *)

Slots == {"date", "platform", "sentiment", "location", "engagements", "mediatype"}
TextSlots == <<"platform", "sentiment", "location", "mediatype">>

\* line 77
required_columns ==
    <<"date", "platform", "sentiment", "location", "engagements", "mediatype">>

ColumnName ==
    [date        |-> <<"d","a","t","e">>,
     platform    |-> <<"p","l","a","t","f","o","r","m">>,
     sentiment   |-> <<"s","e","n","t","i","m","e","n","t">>,
     location    |-> <<"l","o","c","a","t","i","o","n">>,
     engagements |-> <<"e","n","g","a","g","e","m","e","n","t","s">>,
     mediatype   |-> <<"m","e","d","i","a","t","y","p","e">>]

NoColumns == [s \in Slots |-> <<>>]

\* pd.DataFrame()
EmptyFrame == [columns |-> NoColumns, rows |-> <<>>]

\* DataFrame.empty: an axis of length 0
IsEmpty(df) == df.rows = <<>> \/ df.columns = NoColumns

\* line 75
NormalizeColumns(cols) == [s \in Slots |-> normalize_column_name(cols[s])]

\* a check that stops at the first missing column
MissingColumns_FirstOnly(cols) ==
    LET present == {cols[s] : s \in Slots}
        all == SelectSeq(required_columns, LAMBDA col : ColumnName[col] \notin present)
    IN  IF all = <<>> THEN <<>> ELSE <<Head(all)>>

\* line 78
MissingColumns(cols) ==
    LET present == {cols[s] : s \in Slots}
    IN  SelectSeq(required_columns, LAMBDA col : ColumnName[col] \notin present)

\* a dropna that keeps the rows whose date failed to parse
DropNaDate_KeepAll(rows) == rows

\* line 89, dropna(subset=['date']) after line 87
DropNaDate(rows) == SelectSeq(rows, LAMBDA r : r.date.k # "nat")

\* lines 87-89: parse the dates, drop the rows that did not parse
ParseAndDrop(rows) ==
    DropNaDate([i \in DOMAIN rows |-> [rows[i] EXCEPT !.date = ToDatetime(@)]])

\* lines 64-99.  Result: [raised, df, errs]; raised stands for the
\* IntCastingNaNError of .astype(int) on a non-finite value.
clean_data(df) ==
    LET cols    == NormalizeColumns(df.columns)
        missing == MissingColumns(cols)
        dated   == ParseAndDrop(df.rows)
        numeric == [i \in DOMAIN dated |->
                      [dated[i] EXCEPT !.engagements = FillNaZero(ToNumeric(@))]]
        nonfinite == \E i \in DOMAIN numeric : numeric[i].engagements.k = "inf"
        ints    == [i \in DOMAIN numeric |->
                      [numeric[i] EXCEPT !.engagements = AsTypeInt(@)]]
        texts   == [i \in DOMAIN ints |->
                      [ints[i] EXCEPT !.platform  = CleanText(@),
                                      !.sentiment = CleanText(@),
                                      !.location  = CleanText(@),
                                      !.mediatype = CleanText(@)]]
    IN  IF missing # <<>>
        THEN [raised |-> FALSE, df |-> EmptyFrame,
              errs |-> <<[msg |-> "Kolom yang diperlukan hilang", detail |-> missing]>>]
        ELSE IF nonfinite
        THEN [raised |-> TRUE, df |-> EmptyFrame, errs |-> <<>>]
        ELSE [raised |-> FALSE, df |-> [columns |-> cols, rows |-> texts],
              errs |-> <<>>]

----------------------------------------------------------------------------
(* Aggregations (lines 217-269).  An aggregation result is a sequence of   *)
(* [key, n] entries: key is the text of the group, n its measure.          *)

RECURSIVE DistinctKeys(_)
\* the keys of a sequence in order of first encounter
DistinctKeys(keys) ==
    IF keys = <<>> THEN <<>>
    ELSE <<Head(keys)>> \o DistinctKeys(SelectSeq(Tail(keys), LAMBDA x : x # Head(keys)))

RECURSIVE InsertDesc(_, _)
\* stable insertion for a descending order of n
InsertDesc(sorted, e) ==
    IF sorted = <<>> THEN <<e>>
    ELSE IF Head(sorted).n >= e.n
         THEN <<Head(sorted)>> \o InsertDesc(Tail(sorted), e)
         ELSE <<e>> \o sorted

RECURSIVE SortDescFrom(_, _)
SortDescFrom(done, todo) ==
    IF todo = <<>> THEN done
    ELSE SortDescFrom(InsertDesc(done, Head(todo)), Tail(todo))

\* sort_values(ascending=False), ties in their given order
SortDesc(entries) == SortDescFrom(<<>>, entries)

Column(rows, slot) == [i \in DOMAIN rows |-> rows[i][slot].v]

\* Series.value_counts(): one entry per distinct value, by descending count
ValueCounts(rows, slot) ==
    LET col  == Column(rows, slot)
        keys == DistinctKeys(col)
    IN  SortDesc([i \in DOMAIN keys |->
                    [key |-> keys[i],
                     n   |-> Len(SelectSeq(col, LAMBDA x : x = keys[i]))]])

RECURSIVE SumSeq(_)
SumSeq(q) == IF q = <<>> THEN 0 ELSE Head(q) + SumSeq(Tail(q))

CharOrder ==
    <<" ", "-">> \o UpperCase \o <<"_">> \o LowerCase

CharRank == [c \in {CharOrder[i] : i \in DOMAIN CharOrder} |->
                CHOOSE i \in DOMAIN CharOrder : CharOrder[i] = c]

RECURSIVE TextLess(_, _)
\* str < str
TextLess(a, b) ==
    IF b = <<>> THEN FALSE
    ELSE IF a = <<>> THEN TRUE
    ELSE IF Head(a) = Head(b) THEN TextLess(Tail(a), Tail(b))
    ELSE CharRank[Head(a)] < CharRank[Head(b)]

DateLess(a, b) ==
    \/ a[1] < b[1]
    \/ a[1] = b[1] /\ a[2] < b[2]
    \/ a[1] = b[1] /\ a[2] = b[2] /\ a[3] < b[3]

\* the group keys in ascending order, as groupby(sort=True) lists them
KeyLess(slot, a, b) == IF slot = "date" THEN DateLess(a, b) ELSE TextLess(a, b)

SortKeys(keys, slot) ==
    LET all == {keys[i] : i \in DOMAIN keys}
    IN  [i \in DOMAIN keys |->
            CHOOSE x \in all : Cardinality({y \in all : KeyLess(slot, y, x)}) = i - 1]

\* groupby(slot)['engagements'].sum(), keys ascending
SumEngagementsBy(rows, slot) ==
    LET keys == SortKeys(DistinctKeys(Column(rows, slot)), slot)
    IN  [i \in DOMAIN keys |->
            [key |-> keys[i],
             n   |-> SumSeq([j \in DOMAIN SelectSeq(rows, LAMBDA r : r[slot].v = keys[i]) |->
                        SelectSeq(rows, LAMBDA r : r[slot].v = keys[i])[j].engagements.v])]]

\* str(datetime.date)
DateText(d) == <<ToString(d[1]), "-", ToString(d[2]), "-", ToString(d[3])>>

\* lines 217-218
sentiment_counts(rows) == ValueCounts(rows, "sentiment")

\* lines 228-231
engagement_by_date(rows) ==
    LET sums == SumEngagementsBy(rows, "date")
    IN  [i \in DOMAIN sums |-> [key |-> DateText(sums[i].key), n |-> sums[i].n]]

\* lines 244-245
platform_engagements(rows) == SortDesc(SumEngagementsBy(rows, "platform"))

\* lines 257-258
media_type_counts(rows) == ValueCounts(rows, "mediatype")

\* lines 267-268
location_counts(rows) == ValueCounts(rows, "location")

\* line 269: head(5)
TopN == 5

\* a head() that keeps one row more
HeadN_OneMore(entries, n) ==
    SubSeq(entries, 1, IF Len(entries) < n + 1 THEN Len(entries) ELSE n + 1)

\* DataFrame.head(n)
HeadN(entries, n) == SubSeq(entries, 1, IF Len(entries) < n THEN Len(entries) ELSE n)

\* line 269
top_5_locations(rows) == HeadN(location_counts(rows), TopN)

NumCharts == 5

\* the aggregation a chart step charts, in the order of lines 214-276
ChartData(step, rows) ==
    CASE step = 1 -> sentiment_counts(rows)
      [] step = 2 -> engagement_by_date(rows)
      [] step = 3 -> platform_engagements(rows)
      [] step = 4 -> media_type_counts(rows)
      [] OTHER    -> top_5_locations(rows)

\* the chart_type argument of each create_chart call (lines 219-270)
ChartType == <<"pie", "line", "bar", "pie", "bar">>

\* the title argument of each create_chart call
ChartTitle == <<"Rincian Sentimen", "Tren Engagement Seiring Waktu",
                "Engagement Platform", "Campuran Tipe Media", "5 Lokasi Teratas">>

\* lines 102-129.  Result: what the call adds to the page.
create_chart(entries, chart_type, title) ==
    IF entries = <<>>
    THEN [warns  |-> <<[msg |-> "Tidak ada data untuk membuat grafik", title |-> title]>>,
          charts |-> <<>>]
    ELSE IF chart_type \in {"pie", "line", "bar"}
    THEN [warns |-> <<>>,
          charts |-> <<[type |-> chart_type, title |-> title, points |-> Len(entries)]>>]
    ELSE [warns |-> <<>>, charts |-> <<>>]

RECURSIVE Serialize(_)
\* to_dict(orient='records') inside the f-string of a prompt
Serialize(entries) ==
    IF entries = <<>> THEN <<>>
    ELSE <<"{">> \o Head(entries).key \o <<":", ToString(Head(entries).n), "}">>
         \o Serialize(Tail(entries))

\* the prompts of lines 221, 238, 251, 261, 275; the trend prompt is built
\* from engagement_by_date.head()
Prompt(step, rows) ==
    <<ChartTitle[step]>> \o
    Serialize(IF step = 2 THEN HeadN(ChartData(2, rows), 5) ELSE ChartData(step, rows))

----------------------------------------------------------------------------
(* get_gemini_insight (lines 17-55).  What the endpoint does with one      *)
(* request is an Outcome:                                                  *)
(*   exc    the exception requests.post raises, or "none"                  *)
(*   status the HTTP status of the response                                *)
(*   json   whether the response body parses as JSON                       *)
(*   body   the shape of the parsed body                                   *)
(* The shape of a body says, level by level, what the lookups of lines     *)
(* 37-39 find: top ("dict", "emptydict", "list", "null"), candidates       *)
(* ("absent", "empty", "list"), content of candidates[0] ("absent",        *)
(* "emptydict", "dict"), parts ("absent", "empty", "list"), and the text   *)
(* of parts[0].                                                            *)

Body(t, cands, cont, prts, txt) ==
    [top |-> t, candidates |-> cands, content |-> cont, parts |-> prts, text |-> txt]

WellFormed(text) == Body("dict", "list", "dict", "list", text)

NoBody == Body("null", "absent", "absent", "absent", "")

Raises(exc) == [exc |-> exc, status |-> 0, json |-> FALSE, body |-> NoBody]
Status(code) == [exc |-> "none", status |-> code, json |-> FALSE, body |-> NoBody]
NotJson == [exc |-> "none", status |-> 200, json |-> FALSE, body |-> NoBody]
Answers(body) == [exc |-> "none", status |-> 200, json |-> TRUE, body |-> body]
NoReply == [exc |-> "none", status |-> 0, json |-> FALSE, body |-> NoBody]

\* the classes an exception is an instance of (requests.exceptions, builtins)
Bases(exc) ==
    CASE exc = "HTTPError"        -> {"HTTPError", "RequestException", "Exception"}
      [] exc = "ConnectionError"  -> {"ConnectionError", "RequestException", "Exception"}
      [] exc = "ConnectTimeout"   -> {"ConnectTimeout", "ConnectionError", "Timeout",
                                      "RequestException", "Exception"}
      [] exc = "ReadTimeout"      -> {"ReadTimeout", "Timeout", "RequestException", "Exception"}
      [] exc = "TooManyRedirects" -> {"TooManyRedirects", "RequestException", "Exception"}
      [] exc = "JSONDecodeError"  -> {"JSONDecodeError", "RequestException", "Exception"}
      [] exc = "AttributeError"   -> {"AttributeError", "Exception"}
      [] OTHER                    -> {}

\* str(e) of the exceptions the last handler formats
ExcText(exc) ==
    CASE exc = "TooManyRedirects" -> "Exceeded 30 redirects."
      [] exc = "JSONDecodeError"  -> "Expecting value: line 1 column 1 (char 0)"
      [] exc = "AttributeError:get"   -> "'list' object has no attribute 'get'"
      [] exc = "AttributeError:parts" -> "'dict' object has no attribute 'parts'"
      [] OTHER -> exc

\* the handlers without the catch-all
except_clauses_NoCatchAll == <<"HTTPError", "ConnectionError", "Timeout">>

\* lines 44, 47, 50, 53: the handlers in source order
except_clauses == <<"HTTPError", "ConnectionError", "Timeout", "Exception">>

\* a dispatch that ignores subclassing
Handler_ExactClass(exc) ==
    IF \E i \in DOMAIN except_clauses : except_clauses[i] = exc THEN exc ELSE "none"

\* the first handler that matches, or "none"
Handler(exc) ==
    LET hit == SelectSeq(except_clauses, LAMBDA c : c \in Bases(exc))
    IN  IF hit = <<>> THEN "none" ELSE Head(hit)

\* requests.Response.__bool__ is Response.ok
ResponseBool(status) == status < 400

\* lines 37-39: the guard of the success branch
ExpectedStructure(b) ==
    /\ b.top = "dict"
    /\ b.candidates = "list"
    /\ b.content = "dict"
    /\ b.parts = "list"

\* line 40: ['content'].parts[0].text is an attribute lookup on a dict
ExtractText(b) == [exc |-> "AttributeError:parts", text |-> ""]

FailPrefix == "Gagal mengambil wawasan. "
ShapeMessage == <<"Tidak dapat menghasilkan wawasan. (Struktur respons tidak terduga)">>

Err(msg) == [msg |-> msg, detail |-> <<>>]

\* lines 32-43: the body of the try.  Result: [exc, status, text, errs];
\* exc is the exception that leaves the try ("none": a return).
TryBody(o) ==
    IF o.exc # "none"
        THEN [exc |-> o.exc, status |-> 0, text |-> <<>>, errs |-> <<>>]
    ELSE IF 400 <= o.status /\ o.status < 600
        THEN [exc |-> "HTTPError", status |-> o.status, text |-> <<>>, errs |-> <<>>]
    ELSE IF ~o.json
        THEN [exc |-> "JSONDecodeError", status |-> 0, text |-> <<>>, errs |-> <<>>]
    ELSE IF o.body.top = "list"
        THEN [exc |-> "AttributeError:get", status |-> 0, text |-> <<>>, errs |-> <<>>]
    ELSE IF ExpectedStructure(o.body)
        THEN [exc |-> ExtractText(o.body).exc, status |-> 0,
              text |-> <<ExtractText(o.body).text>>, errs |-> <<>>]
    ELSE [exc |-> "none", status |-> 0, text |-> ShapeMessage,
          errs |-> <<Err("Struktur respons Gemini API tidak terduga atau konten kosong")>>]

ClassOf(exc) == IF exc \in {"AttributeError:get", "AttributeError:parts"}
                THEN "AttributeError" ELSE exc

\* lines 21-55 for one answer of the endpoint.
\* Result: [raised, text, errs]; raised: an exception leaves the function.
get_gemini_insight(o) ==
    LET t == TryBody(o)
        h == Handler(ClassOf(t.exc))
    IN  IF t.exc = "none"
            THEN [raised |-> FALSE, text |-> t.text, errs |-> t.errs]
        ELSE IF h = "HTTPError"
            THEN [raised |-> FALSE,
                  text |-> <<FailPrefix, "Kesalahan HTTP: ",
                             IF ResponseBool(t.status) THEN ToString(t.status)
                                                       ELSE "Tidak diketahui">>,
                  errs |-> <<Err("Kesalahan HTTP saat memanggil Gemini API")>>]
        ELSE IF h = "ConnectionError"
            THEN [raised |-> FALSE,
                  text |-> <<FailPrefix, "Kesalahan koneksi.">>,
                  errs |-> <<Err("Kesalahan koneksi saat memanggil Gemini API")>>]
        ELSE IF h = "Timeout"
            THEN [raised |-> FALSE,
                  text |-> <<FailPrefix, "Waktu habis.">>,
                  errs |-> <<Err("Waktu habis saat memanggil Gemini API.")>>]
        ELSE IF h = "Exception"
            THEN [raised |-> FALSE,
                  text |-> <<FailPrefix, "Kesalahan: ", ExcText(t.exc)>>,
                  errs |-> <<Err("Kesalahan tak terduga saat memanggil Gemini API")>>]
        ELSE [raised |-> TRUE, text |-> <<>>, errs |-> <<>>]

\* st.cache_data: the memo entry of a prompt, as a set of 0 or 1 entries
Cached(memo, prompt) == {e \in memo : e.prompt = prompt}

----------------------------------------------------------------------------
(* Input tables                                                            *)

NoFile == [columns |-> NoColumns, rows |-> <<>>, file |-> FALSE]

CsvTable(cols, rows) == [columns |-> cols, rows |-> rows, file |-> TRUE]

\* the DataFrame part of an upload (pd.read_csv, line 187)
Frame(t) == [columns |-> t.columns, rows |-> t.rows]

HeaderTitle ==
    [date        |-> <<"D","a","t","e">>,
     platform    |-> <<"P","l","a","t","f","o","r","m">>,
     sentiment   |-> <<"S","e","n","t","i","m","e","n","t">>,
     location    |-> <<"L","o","c","a","t","i","o","n">>,
     engagements |-> <<"E","n","g","a","g","e","m","e","n","t","s">>,
     mediatype   |-> <<"M","e","d","i","a"," ","T","y","p","e">>]

HeaderSnake ==
    [date        |-> <<"D","A","T","E">>,
     platform    |-> <<"p","l","a","t","f","o","r","m">>,
     sentiment   |-> <<"S","e","n","t","i","_","m","e","n","t">>,
     location    |-> <<"l","o","c","a","t","i","o","n">>,
     engagements |-> <<"E","N","G","A","G","E","M","E","N","T","S">>,
     mediatype   |-> <<"m","e","d","i","a","_","t","y","p","e">>]

HeaderNoLocation == [HeaderTitle EXCEPT !.location = <<>>]

HeaderMisspelt ==
    [HeaderTitle EXCEPT !.location = <<"L","o","c","a","t","i","o","n","s">>,
                        !.mediatype = <<"M","e","d","i","a","-","T","y","p","e">>]

HeaderNoDateNoEngagements ==
    [HeaderSnake EXCEPT !.date = <<>>, !.engagements = <<>>]

Iso(y, m, d) == [k |-> "iso", v |-> <<y, m, d>>]
JunkDate == [k |-> "junk", v |-> <<>>]
NumText(tenths) == [k |-> "numtext", v |-> tenths]
JunkNum == [k |-> "junk", v |-> 0]
InfText == [k |-> "inftext", v |-> 0]

Twitter  == <<"T","w">>
Facebook == <<"F","B">>
Positive == <<"P","o","s">>
Negative == <<"N","e","g">>
NYC      == <<"N","Y","C">>
LA       == <<"L","A">>
Post     == <<"P","o","s","t">>
Video    == <<"V","i","d">>

BaseRow ==
    [idx |-> 0, date |-> Iso(2024, 1, 1), platform |-> Str(Twitter),
     sentiment |-> Str(Positive), location |-> Str(NYC),
     engagements |-> NumText(1500), mediatype |-> Str(Post)]

DateCells == {Iso(2024, 2, 29), Iso(2024, 2, 30), JunkDate, NaNDate}

EngCells == {NumText(1507), NumText(-57), JunkNum, NaNNum, InfText}

TextCells == <<NaNText, Str(<<" "," ","L","A"," ">>), Str(<<" "," ">>)>>

TextCell(i) == TextCells[(i % Len(TextCells)) + 1]

\* rows that vary the date and the engagements together, and rows that put
\* each kind of text cell in each text column
RowDomain ==
    {[BaseRow EXCEPT !.date = d, !.engagements = e] : d \in DateCells, e \in EngCells}
    \cup {[BaseRow EXCEPT !.platform  = TextCell(j),
                          !.sentiment = TextCell(j + 1),
                          !.location  = TextCell(j + 2),
                          !.mediatype = TextCell(j)] : j \in DOMAIN TextCells}

MaxRows == 2

\* read_csv gives the rows a RangeIndex 0..n-1
Indexed(rows) == [i \in DOMAIN rows |-> [rows[i] EXCEPT !.idx = i - 1]]

RowSeqs(n) == UNION {[1..m -> RowDomain] : m \in 0..n}

CleanHeaders == {HeaderTitle, HeaderSnake, HeaderNoLocation}

----------------------------------------------------------------------------
(* Study of clean_data as a function: the input is drawn by the initial    *)
(* state, Clean applies clean_data to it, CleanAgain applies clean_data to *)
(* the result.                                                             *)

InitOutputs ==
    /\ errs = <<>> /\ warns = <<>> /\ charts = <<>> /\ shown = <<>>
    /\ cache = {} /\ net = <<>> /\ reply = NoReply /\ top = <<>>

InitClean ==
    /\ pc = "input"
    /\ k = 0
    /\ raw \in {CsvTable(h, Indexed(rs)) : h \in CleanHeaders, rs \in RowSeqs(MaxRows)}
    /\ data = EmptyFrame
    /\ data2 = EmptyFrame
    /\ InitOutputs

Clean ==
    /\ pc = "input"
    /\ LET res == clean_data(Frame(raw))
       IN  /\ pc' = IF res.raised THEN "raised" ELSE "cleaned"
           /\ data' = res.df
           /\ errs' = errs \o res.errs
    /\ UNCHANGED <<k, raw, data2, warns, charts, shown, cache, net, reply, top>>

CleanAgain ==
    /\ pc = "cleaned"
    /\ LET res == clean_data(data)
       IN  /\ pc' = IF res.raised THEN "raised_again" ELSE "cleaned_twice"
           /\ data2' = res.df
           /\ errs' = errs \o res.errs
    /\ UNCHANGED <<k, raw, data, warns, charts, shown, cache, net, reply, top>>

NextClean == Clean \/ CleanAgain

SpecClean == InitClean /\ [][NextClean]_vars

----------------------------------------------------------------------------
(* The script run (lines 180-276).  Streamlit runs the script from the top *)
(* for each upload; only the st.cache_data memo outlives a run.            *)

MainRows ==
    <<[idx |-> 0, date |-> Iso(2024, 1, 1), platform |-> Str(Twitter),
       sentiment |-> Str(Positive), location |-> Str(NYC),
       engagements |-> NumText(1500), mediatype |-> Str(Post)],
      [idx |-> 1, date |-> JunkDate, platform |-> Str(Facebook),
       sentiment |-> Str(Negative), location |-> Str(LA),
       engagements |-> JunkNum, mediatype |-> Str(Video)],
      [idx |-> 2, date |-> Iso(2024, 2, 29), platform |-> Str(Facebook),
       sentiment |-> NaNText, location |-> Str(<<" ","L","A"," ">>),
       engagements |-> NaNNum, mediatype |-> Str(Video)]>>

OtherRows == [MainRows EXCEPT ![1].location = Str(LA)]

BadDateRows ==
    <<[MainRows[1] EXCEPT !.date = Iso(2024, 2, 30)],
      [MainRows[2] EXCEPT !.date = NaNDate]>>

InfRows == <<[MainRows[1] EXCEPT !.engagements = InfText]>>

Uploads ==
    {NoFile,
     CsvTable(HeaderTitle, MainRows),
     CsvTable(HeaderSnake, OtherRows),
     CsvTable(HeaderNoLocation, MainRows),
     CsvTable(HeaderMisspelt, MainRows),
     CsvTable(HeaderNoDateNoEngagements, MainRows),
     CsvTable(HeaderSnake, BadDateRows),
     CsvTable(HeaderTitle, <<>>),
     CsvTable(HeaderTitle, InfRows)}

RenderOutcomes ==
    {Raises("ReadTimeout"), Status(503), Answers(WellFormed("T1")),
     Answers(Body("dict", "absent", "absent", "absent", ""))}

Init ==
    /\ pc = "idle"
    /\ k = 0
    /\ raw = NoFile
    /\ data = EmptyFrame
    /\ data2 = EmptyFrame
    /\ InitOutputs

\* the chart section runs whatever the data
ChartSectionRuns_Always(df) == TRUE

\* line 210: if not data.empty
ChartSectionRuns(df) == ~IsEmpty(df)

\* a new run of the script: the page is rebuilt, line 182 resets data
StartRun(t) ==
    /\ pc \in {"idle", "done", "crashed"}
    /\ pc' = "upload"
    /\ k' = 0
    /\ raw' = t
    /\ data' = EmptyFrame
    /\ errs' = <<>> /\ warns' = <<>> /\ charts' = <<>> /\ shown' = <<>>
    /\ net' = <<>> /\ reply' = NoReply
    /\ UNCHANGED <<data2, cache, top>>

\* lines 184-197
CleanStep ==
    /\ pc = "upload"
    /\ IF ~raw.file
       THEN /\ pc' = "gate"
            /\ UNCHANGED <<data, errs>>
       ELSE LET res == clean_data(Frame(raw))
            IN  IF res.raised
                THEN /\ pc' = "crashed"
                     /\ UNCHANGED <<data, errs>>
                ELSE /\ pc' = "gate"
                     /\ data' = res.df
                     /\ errs' = errs \o res.errs \o
                                (IF IsEmpty(res.df)
                                 THEN <<Err("Terjadi masalah saat membersihkan data")>>
                                 ELSE <<>>)
    /\ UNCHANGED <<k, raw, data2, warns, charts, shown, cache, net, reply, top>>

\* line 210
Gate ==
    /\ pc = "gate"
    /\ IF ChartSectionRuns(data)
       THEN pc' = "chart" /\ k' = 1
       ELSE pc' = "done" /\ k' = 0
    /\ UNCHANGED <<raw, data, data2, errs, warns, charts, shown, cache, net, reply, top>>

\* the aggregation and the create_chart call of chart step k
\* (lines 217-219, 228-234, 244-249, 257-259, 267-273); a frame without
\* columns makes the column lookup raise KeyError
DrawChart ==
    /\ pc = "chart"
    /\ IF data.columns = NoColumns
       THEN /\ pc' = "crashed"
            /\ UNCHANGED <<warns, charts>>
       ELSE LET c == create_chart(ChartData(k, data.rows), ChartType[k], ChartTitle[k])
            IN  /\ pc' = "insight"
                /\ warns' = warns \o c.warns
                /\ charts' = charts \o c.charts
    /\ reply' = NoReply
    /\ UNCHANGED <<k, raw, data, data2, errs, shown, cache, net, top>>

\* after the st.markdown of step k: the next chart step, or the end
NextStepPc == IF k < NumCharts THEN "chart" ELSE "done"
NextStepK  == IF k < NumCharts THEN k + 1 ELSE k

\* the get_gemini_insight call of step k (lines 221, 238, 251, 261, 275):
\* a memo hit returns (and replays its st.error calls) without a request
AskInsight ==
    /\ pc = "insight"
    /\ LET p   == Prompt(k, data.rows)
           hit == Cached(cache, p)
       IN  IF hit # {}
           THEN LET e == CHOOSE e \in hit : TRUE
                IN  /\ shown' = Append(shown, e.text)
                    /\ errs' = errs \o e.errs
                    /\ pc' = NextStepPc
                    /\ k' = NextStepK
                    /\ UNCHANGED net
           ELSE /\ net' = Append(net, p)
                /\ pc' = "post"
                /\ UNCHANGED <<k, shown, errs>>
    /\ UNCHANGED <<raw, data, data2, warns, charts, cache, reply, top>>

\* requests.post returns or raises (line 32); the rest of get_gemini_insight
\* and the st.markdown of its result (lines 222, 239, 252, 262, 276) follow
EndpointAnswers(o) ==
    /\ pc = "post"
    /\ reply' = o
    /\ LET res == get_gemini_insight(o)
       IN  IF res.raised
           THEN /\ pc' = "crashed"
                /\ UNCHANGED <<k, shown, errs, cache>>
           ELSE /\ cache' = cache \cup {[prompt |-> net[Len(net)], text |-> res.text,
                                         errs |-> res.errs]}
                /\ shown' = Append(shown, res.text)
                /\ errs' = errs \o res.errs
                /\ pc' = NextStepPc
                /\ k' = NextStepK
    /\ UNCHANGED <<raw, data, data2, warns, charts, net, top>>

Next ==
    \/ \E t \in Uploads : StartRun(t)
    \/ CleanStep
    \/ Gate
    \/ DrawChart
    \/ AskInsight
    \/ \E o \in RenderOutcomes : EndpointAnswers(o)

Spec == Init /\ [][Next]_vars

----------------------------------------------------------------------------
(* Study of get_gemini_insight as a function with its memo: Call is one    *)
(* call with the prompt of a chart step, Reply is what the endpoint does   *)
(* with the request of a call the memo did not answer.                     *)

InsightSteps == {1, 5}

AllOutcomes ==
    {Raises("ConnectionError"), Raises("ConnectTimeout"), Raises("ReadTimeout"),
     Raises("TooManyRedirects"), Status(404), Status(500), NotJson,
     Answers(WellFormed("T1")), Answers(WellFormed("T2")),
     Answers(Body("emptydict", "absent", "absent", "absent", "")),
     Answers(Body("null", "absent", "absent", "absent", "")),
     Answers(Body("list", "absent", "absent", "absent", "")),
     Answers(Body("dict", "absent", "absent", "absent", "")),
     Answers(Body("dict", "empty", "absent", "absent", "")),
     Answers(Body("dict", "list", "absent", "absent", "")),
     Answers(Body("dict", "list", "emptydict", "absent", "")),
     Answers(Body("dict", "list", "dict", "absent", "")),
     Answers(Body("dict", "list", "dict", "empty", ""))}

InitInsight ==
    /\ pc = "idle"
    /\ k = 0
    /\ raw = CsvTable(HeaderTitle, MainRows)
    /\ data = clean_data(Frame(raw)).df
    /\ data2 = EmptyFrame
    /\ InitOutputs

Call(step) ==
    /\ pc \in {"idle", "returned"}
    /\ k' = step
    /\ reply' = NoReply
    /\ LET p   == Prompt(step, data.rows)
           hit == Cached(cache, p)
       IN  IF hit # {}
           THEN LET e == CHOOSE e \in hit : TRUE
                IN  /\ pc' = "returned"
                    /\ shown' = <<e.text>>
                    /\ errs' = e.errs
                    /\ net' = <<>>
           ELSE /\ pc' = "calling"
                /\ net' = <<p>>
                /\ shown' = <<>>
                /\ errs' = <<>>
    /\ UNCHANGED <<raw, data, data2, warns, charts, cache, top>>

Reply(o) ==
    /\ pc = "calling"
    /\ reply' = o
    /\ LET res == get_gemini_insight(o)
       IN  IF res.raised
           THEN /\ pc' = "propagated"
                /\ UNCHANGED <<shown, errs, cache>>
           ELSE /\ pc' = "returned"
                /\ shown' = <<res.text>>
                /\ errs' = res.errs
                /\ cache' = cache \cup {[prompt |-> net[1], text |-> res.text,
                                         errs |-> res.errs]}
    /\ UNCHANGED <<k, raw, data, data2, warns, charts, net, top>>

NextInsight ==
    \/ \E step \in InsightSteps : Call(step)
    \/ \E o \in AllOutcomes : Reply(o)

SpecInsight == InitInsight /\ [][NextInsight]_vars

----------------------------------------------------------------------------
(* Study of the top-locations aggregation: the initial state draws a       *)
(* cleaned dataset, TopLocations computes lines 267-269 on it.             *)

Locations == <<NYC, LA, <<"S","F">>, <<"C","H","I">>, <<"B","O","S">>, <<"S","E","A">>>>

MaxTopRows == 5

MaxOf(q) == IF q = <<>> THEN 0 ELSE CHOOSE m \in {q[i] : i \in DOMAIN q} :
                                        \A i \in DOMAIN q : q[i] <= m

RECURSIVE FirstOccurrenceSeqs(_)
\* the sequences of n location numbers in which the locations first appear
\* in the order 1, 2, 3, ...: every dataset of n rows up to a renaming of
\* its locations
FirstOccurrenceSeqs(n) ==
    IF n = 0 THEN {<<>>}
    ELSE UNION {{Append(q, j) : j \in 1..(IF MaxOf(q) < Len(Locations)
                                          THEN MaxOf(q) + 1 ELSE Len(Locations))} :
                q \in FirstOccurrenceSeqs(n - 1)}

\* every sequence of up to MaxTopRows locations, and the longer ones (up to
\* MaxTopRows + 3 rows) up to renaming
TopInputs ==
    UNION {[1..n -> 1..Len(Locations)] : n \in 1..MaxTopRows}
    \cup UNION {FirstOccurrenceSeqs(n) : n \in (MaxTopRows + 1)..(MaxTopRows + 3)}

CleanRow(i, loc) ==
    [idx |-> i - 1, date |-> [k |-> "ts", v |-> <<2024, 1, 1>>],
     platform |-> Str(Twitter), sentiment |-> Str(Positive), location |-> Str(loc),
     engagements |-> [k |-> "int", v |-> 1], mediatype |-> Str(Post)]

InitTop ==
    /\ pc = "aggregate"
    /\ k = 0
    /\ raw = NoFile
    /\ \E locs \in TopInputs :
          data = [columns |-> ColumnName,
                  rows |-> [i \in DOMAIN locs |-> CleanRow(i, Locations[locs[i]])]]
    /\ data2 = EmptyFrame
    /\ InitOutputs

TopLocations ==
    /\ pc = "aggregate"
    /\ pc' = "aggregated"
    /\ top' = top_5_locations(data.rows)
    /\ UNCHANGED <<k, raw, data, data2, errs, warns, charts, shown, cache, net, reply>>

NextTop == TopLocations

SpecTop == InitTop /\ [][NextTop]_vars

----------------------------------------------------------------------------
(* Properties of clean_data, checked under SpecClean                       *)

\* the headers of the input carry all six required columns
SchemaOk == raw.columns \in {HeaderTitle, HeaderSnake}

Returned == pc \in {"cleaned", "cleaned_twice"}

\* the input row an output row comes from
Source(r) == raw.rows[r.idx + 1]

\* no blank at either end
Trimmed(t) == t = <<>> \/ (Head(t) # " " /\ t[Len(t)] # " ")

\* the text or timestamp is a valid calendar date
Parsable(c) ==
    \/ c.k = "ts"
    \/ c.k = "iso" /\ c.v[2] \in 1..12 /\ c.v[3] \in 1..DaysInMonth(c.v[1], c.v[2])

\* C2: for every table that passes the schema check, every output row has a
\* non-negative integer engagements value, and a missing or non-numeric
\* source value has become 0.
C2_EngagementsNonNegativeInteger ==
    (Returned /\ SchemaOk) =>
        \A i \in DOMAIN data.rows :
            LET e == data.rows[i].engagements
            IN  /\ e.k = "int"
                /\ e.v >= 0
                /\ Source(data.rows[i]).engagements.k \in {"nan", "junk"} => e.v = 0

\* C3: every text field of every output row is trimmed text, and is exactly
\* "Unknown" when the source value was absent.
C3_TextTrimmedUnknownForAbsent ==
    (Returned /\ SchemaOk) =>
        \A i \in DOMAIN data.rows : \A j \in DOMAIN TextSlots :
            LET c == data.rows[i][TextSlots[j]]
            IN  /\ c.k = "str"
                /\ Trimmed(c.v)
                /\ Source(data.rows[i])[TextSlots[j]].k = "nan" => c.v = Unknown

\* C4: clean_data applied to its own output returns that output unchanged
\* (columns, rows, index labels and every field), for inputs that fail the
\* schema check and inputs whose rows are all dropped included.
C4_CleanIdempotent ==
    /\ pc # "raised_again"
    /\ pc = "cleaned_twice" => data2 = data

\* C4 witness: a second cleaning of a dataset that lost a row and had text
\* stripped in the first
C4_Witness ==
    /\ pc = "cleaned_twice"
    /\ SchemaOk
    /\ Len(raw.rows) = 2 /\ Len(data.rows) = 1
    /\ data.rows[1].location # Source(data.rows[1]).location
    /\ data2 = data

----------------------------------------------------------------------------
(* Properties of the script run, checked under Spec                        *)

\* the required keys each header set of Uploads lacks after normalization
LackedKeys(cols) ==
    CASE cols = HeaderNoLocation          -> <<"location">>
      [] cols = HeaderMisspelt            -> <<"location", "mediatype">>
      [] cols = HeaderNoDateNoEngagements -> <<"date", "engagements">>
      [] OTHER                            -> <<>>

\* the run has passed the clean_data call of line 190
PastCleaning == pc \notin {"idle", "upload"}

\* C1: when the uploaded headers lack a required key, clean_data reports an
\* error naming exactly the lacked keys and returns an empty dataset, and
\* the rest of the run draws no chart and issues no insight request.
C1_SchemaErrorNamesMissingAndHalts ==
    (raw.file /\ LackedKeys(raw.columns) # <<>> /\ PastCleaning) =>
        /\ errs # <<>>
        /\ errs[1] = [msg |-> "Kolom yang diperlukan hilang",
                      detail |-> LackedKeys(raw.columns)]
        /\ data = EmptyFrame
        /\ pc \in {"gate", "done"}
        /\ charts = <<>>
        /\ net = <<>>
        /\ shown = <<>>

\* C1 witness: a finished run on a table whose headers lack two keys
C1_Witness ==
    /\ pc = "done"
    /\ raw.columns = HeaderMisspelt
    /\ raw.rows # <<>>
    /\ Len(errs) = 2
    /\ errs[1].detail = <<"location", "mediatype">>
    /\ charts = <<>> /\ net = <<>>

Titles(cs) == [i \in DOMAIN cs |-> cs[i].title]

\* C10: over a non-empty cleaned dataset the five chart steps run one at a
\* time in the fixed order; the chart of a step is drawn before its insight
\* is requested and its insight is shown before the next chart is drawn; no
\* answer of the endpoint aborts the run, which ends with five charts drawn
\* and five insight texts shown.
C10_ChartStepsInOrderAndNeverAborted ==
    ~IsEmpty(data) =>
        /\ pc \in {"gate", "chart", "insight", "post", "done"}
        /\ Titles(charts) = SubSeq(ChartTitle, 1, Len(charts))
        /\ pc = "gate" => (charts = <<>> /\ shown = <<>> /\ net = <<>>)
        /\ pc = "chart" => (Len(charts) = k - 1 /\ Len(shown) = k - 1)
        /\ pc = "insight" => (Len(charts) = k /\ Len(shown) = k - 1)
        /\ pc = "post" => /\ Len(charts) = k /\ Len(shown) = k - 1
                          /\ net[Len(net)][1] = ChartTitle[k]
        /\ pc = "done" => (Len(charts) = NumCharts /\ Len(shown) = NumCharts)
        /\ \A i \in DOMAIN net : \E j \in 1..Len(charts) :
              /\ net[i][1] = ChartTitle[j]
              /\ i <= j
        /\ \A i \in DOMAIN shown : shown[i] # <<>>

\* C10 witness: a finished run in which a request timed out, one got an
\* error status and one got a malformed answer, with all five requests sent
C10_Witness ==
    /\ pc = "done"
    /\ Len(charts) = NumCharts /\ Len(shown) = NumCharts /\ Len(net) = NumCharts
    /\ shown[1] = <<FailPrefix, "Waktu habis.">>
    /\ shown[2] = ShapeMessage
    /\ shown[3] = <<FailPrefix, "Kesalahan HTTP: ", "Tidak diketahui">>

----------------------------------------------------------------------------
(* Properties of get_gemini_insight, checked under SpecInsight             *)

\* the failure texts that name each category
HttpText(t)    == Len(t) = 3 /\ t[1] = FailPrefix /\ t[2] = "Kesalahan HTTP: "
ConnText(t)    == t = <<FailPrefix, "Kesalahan koneksi.">>
TimeoutText(t) == t = <<FailPrefix, "Waktu habis.">>
OtherText(t)   == Len(t) = 3 /\ t[1] = FailPrefix /\ t[2] = "Kesalahan: "

\* the endpoint failed at the transport level
TransportFault(o) == o.exc # "none" \/ (400 <= o.status /\ o.status < 600) \/ (o.status = 200 /\ ~o.json)

\* C6: whatever the transport outcome, the call returns a failure text that
\* names the category of the failure (a timeout while connecting counts as
\* either a connection failure or a timeout), and no exception leaves it.
C6_FailureTextNamesCategoryNoPropagation ==
    /\ pc # "propagated"
    /\ (pc = "returned" /\ reply # NoReply /\ TransportFault(reply)) =>
          /\ Len(shown) = 1
          /\ reply.exc = "none" /\ reply.status >= 400 => HttpText(shown[1])
          /\ reply.exc = "ConnectionError" => ConnText(shown[1])
          /\ reply.exc = "ReadTimeout" => TimeoutText(shown[1])
          /\ reply.exc = "ConnectTimeout" => (ConnText(shown[1]) \/ TimeoutText(shown[1]))
          /\ reply.exc = "TooManyRedirects" => OtherText(shown[1])
          /\ (reply.exc = "none" /\ reply.status = 200) => OtherText(shown[1])

\* C6 witness: a call answered by a 404 has returned the HTTP failure text
C6_Witness ==
    /\ pc = "returned"
    /\ reply = Status(404)
    /\ shown = <<<<FailPrefix, "Kesalahan HTTP: ", "Tidak diketahui">>>>
    /\ errs # <<>>

\* C7: a success answer with the expected structure makes the call return
\* the text of candidates[0].content.parts[0]; a success answer without it
\* makes the call return the fixed message and report the anomaly.
C7_ReturnsCandidateTextOrFixedMessage ==
    (pc = "returned" /\ reply # NoReply /\ reply.exc = "none"
        /\ reply.status = 200 /\ reply.json) =>
        IF ExpectedStructure(reply.body)
        THEN shown = <<<<reply.body.text>>>>
        ELSE shown = <<ShapeMessage>> /\ errs # <<>>

----------------------------------------------------------------------------
(* Property of the top-locations aggregation, checked under SpecTop        *)

CountOf(loc) == Cardinality({i \in DOMAIN data.rows : data.rows[i].location.v = loc})

LocationsPresent == {data.rows[i].location.v : i \in DOMAIN data.rows}

\* C9: the aggregation returns min(5, number of distinct locations) entries,
\* one per location, each with the number of records of that location, in
\* non-increasing order of count, and no location left out has a larger
\* count than one included.
C9_TopLocationsAreTheFiveMostFrequent ==
    pc = "aggregated" =>
        LET included == {top[i].key : i \in DOMAIN top}
        IN  /\ Len(top) = IF Cardinality(LocationsPresent) < 5
                          THEN Cardinality(LocationsPresent) ELSE 5
            /\ Cardinality(included) = Len(top)
            /\ included \subseteq LocationsPresent
            /\ \A i \in DOMAIN top : top[i].n = CountOf(top[i].key)
            /\ \A i, j \in DOMAIN top : i < j => top[i].n >= top[j].n
            /\ \A loc \in LocationsPresent \ included :
                  \A i \in DOMAIN top : CountOf(loc) <= top[i].n

\* C9 witness: six locations; the one met last has two records and comes
\* first, and one of the five met before it is left out
C9_Witness ==
    /\ pc = "aggregated"
    /\ Cardinality(LocationsPresent) = 6
    /\ Len(top) = 5
    /\ top[1].n = 2 /\ top[5].n = 1
    /\ top[1].key \notin {data.rows[i].location.v : i \in 1..5}

====
